---------------------------- MODULE Spec2Model ----------------------------
(***************************************************************************)
(* Model of the hf-papers research pipeline:                               *)
(*   tools/arxiv_tools.py     source adapters and the fetch aggregator     *)
(*   tools/summarizer_tool.py summary enrichment                           *)
(*   tools/supabase_tool.py   record cleaning and persistence              *)
(*   main.py / crew.py        the run-once entry point                     *)
(*                                                                         *)
(* Python values are tagged: a str is [t |-> "str", v |-> <<chars>>], a    *)
(* list is [t |-> "list", v |-> <<items>>], None is PyNone.  A dict is a   *)
(* function from its keys (strings) to values.  Characters are one-letter  *)
(* strings, so that lower(), strip() and SequenceMatcher work on letters.  *)
(***************************************************************************)
EXTENDS Integers, Sequences, FiniteSets, TLC

(***************************************************************************)
(* Bounds of the model.                                                    *)
(***************************************************************************)
MaxFeed == 3
MaxLimit == 3
MaxPapers == 2
MaxBatch == 2
MaxPipelineFeed == 2
MaxRuns == 2
MaxAdapterFeed == 3
MaxAdapterLimit == 2
MaxDedup == 3

(***************************************************************************)
(* Python values.                                                          *)
(***************************************************************************)
Str(s) == [t |-> "str", v |-> s]
List(l) == [t |-> "list", v |-> l]
PyNone == [t |-> "none", v |-> <<>>]

\* dict.get(key, default)
Get(d, k, default) == IF k \in DOMAIN d THEN d[k] ELSE default

\* bool(value): None, '' and [] are falsy
Truthy(x) == x.t # "none" /\ x.v # <<>>

Min(a, b) == IF a <= b THEN a ELSE b

\* a slice that is one too long
TakeOneMore(s, n) == SubSeq(s, 1, IF n + 1 <= Len(s) THEN n + 1 ELSE Len(s))

\* s[:n] for n >= 0
Take(s, n) == SubSeq(s, 1, Min(n, Len(s)))

\* str.lower() on one character, then on a string
UpperCase == <<"A", "B", "C", "D", "E", "F", "G", "H", "I", "J", "K", "L", "M",
               "N", "O", "P", "Q", "R", "S", "T", "U", "V", "W", "X", "Y", "Z">>
LowerCase == <<"a", "b", "c", "d", "e", "f", "g", "h", "i", "j", "k", "l", "m",
               "n", "o", "p", "q", "r", "s", "t", "u", "v", "w", "x", "y", "z">>

LowerChar(c) ==
    IF \E i \in 1..Len(UpperCase) : UpperCase[i] = c
    THEN LowerCase[CHOOSE i \in 1..Len(UpperCase) : UpperCase[i] = c]
    ELSE c

lower(s) == [i \in 1..Len(s) |-> LowerChar(s[i])]

IsSpace(c) == c \in {" ", "\n", "\t"}

RECURSIVE lstrip(_)
lstrip(s) == IF s # <<>> /\ IsSpace(Head(s)) THEN lstrip(Tail(s)) ELSE s

RECURSIVE rstrip(_)
rstrip(s) ==
    IF s # <<>> /\ IsSpace(s[Len(s)]) THEN rstrip(SubSeq(s, 1, Len(s) - 1)) ELSE s

\* str.strip()
strip(s) == rstrip(lstrip(s))

(***************************************************************************)
(* difflib.SequenceMatcher(None, a, b).ratio() for sequences shorter than  *)
(* 200 items (no junk, no "popular" items).  Positions are 1-based and the *)
(* windows alo..ahi, blo..bhi are inclusive.                               *)
(***************************************************************************)
RECURSIVE MatchLen(_, _, _, _, _, _)
MatchLen(a, b, i, j, ahi, bhi) ==
    IF i <= ahi /\ j <= bhi /\ a[i] = b[j]
    THEN 1 + MatchLen(a, b, i + 1, j + 1, ahi, bhi)
    ELSE 0

SetMax(S) == CHOOSE x \in S : \A y \in S : y <= x
SetMin(S) == CHOOSE x \in S : \A y \in S : x <= y

\* find_longest_match: <<besti, bestj, bestsize>>, the longest block, the one
\* starting earliest in a and, among those, earliest in b
find_longest_match(a, b, alo, ahi, blo, bhi) ==
    LET size == SetMax({MatchLen(a, b, i, j, ahi, bhi) : i \in alo..ahi, j \in blo..bhi})
        besti == SetMin({i \in alo..ahi :
                           \E j \in blo..bhi : MatchLen(a, b, i, j, ahi, bhi) = size})
        bestj == SetMin({j \in blo..bhi : MatchLen(a, b, besti, j, ahi, bhi) = size})
    IN  <<besti, bestj, size>>

\* the sum of the sizes of get_matching_blocks()
RECURSIVE matches(_, _, _, _, _, _)
matches(a, b, alo, ahi, blo, bhi) ==
    IF alo > ahi \/ blo > bhi THEN 0
    ELSE LET m == find_longest_match(a, b, alo, ahi, blo, bhi)
         IN  IF m[3] = 0 THEN 0
             ELSE m[3] + matches(a, b, alo, m[1] - 1, blo, m[2] - 1)
                       + matches(a, b, m[1] + m[3], ahi, m[2] + m[3], bhi)

\* similarity > 0.8, with ratio = 2.0 * matches / (len(a) + len(b)), and 1.0
\* when both are empty
ThresholdNum == 8
ThresholdDen == 10

RatioAbove(a, b) ==
    LET length == Len(a) + Len(b)
    IN  IF length = 0 THEN ThresholdDen > ThresholdNum
        ELSE 2 * matches(a, b, 1, Len(a), 1, Len(b)) * ThresholdDen > ThresholdNum * length

(***************************************************************************)
(* HuggingFaceSupplementTool._run.  A feed is what feedparser.parse gives: *)
(* [raises |-> BOOLEAN, entries |-> <<entry, ...>>]; an entry is a         *)
(* function from the attributes it has to their (str) values.              *)
(***************************************************************************)
TechSummaryMax == 500
Ellipsis == <<".", ".", ".">>
Now == <<"now">>

\* [author.get('name', '').strip() for author in entry.authors if author.get('name')]
RECURSIVE AuthorNames(_)
AuthorNames(as) ==
    IF as = <<>> THEN <<>>
    ELSE IF Head(as) = "" THEN AuthorNames(Tail(as))
         ELSE <<IF IsSpace(Head(as)) THEN "" ELSE Head(as)>> \o AuthorNames(Tail(as))

\* the entry has the attributes the loop body reads without a default
HFEntryParses(entry) == {"title", "link"} \subseteq DOMAIN entry

\* a paper whose title is taken from the entry as it is
HFPaperRawTitle(entry) ==
    [title |-> Str(entry["title"]),
     abstract |-> Str(strip(Get(entry, "summary", <<>>))),
     paper_url |-> Str(strip(entry["link"])),
     published_date |-> Str(Get(entry, "published", <<>>)),
     authors |-> List(IF "authors" \in DOMAIN entry THEN AuthorNames(entry["authors"]) ELSE <<>>),
     primary_category |-> Str(<<"Trending Research">>),
     source |-> Str(<<"huggingface_trending">>),
     fetched_at |-> Str(Now),
     technical_summary |-> Str(strip(Get(entry, "summary", <<>>)))]

HFPaper(entry) ==
    LET title == strip(entry["title"])
        abstract == strip(Get(entry, "summary", <<>>))
        link == strip(entry["link"])
        authors == IF "authors" \in DOMAIN entry THEN AuthorNames(entry["authors"]) ELSE <<>>
        published == Get(entry, "published", <<>>)
    IN  [title |-> Str(title),
         abstract |-> Str(abstract),
         paper_url |-> Str(link),
         published_date |-> Str(published),
         authors |-> List(authors),
         primary_category |-> Str(<<"Trending Research">>),
         source |-> Str(<<"huggingface_trending">>),
         fetched_at |-> Str(Now),
         technical_summary |->
             Str(IF Len(abstract) > TechSummaryMax
                 THEN Take(abstract, TechSummaryMax) \o Ellipsis
                 ELSE abstract)]

\* the loop over the entries: an entry that fails to parse is skipped
RECURSIVE HFParseEntries(_)
HFParseEntries(entries) ==
    IF entries = <<>> THEN <<>>
    ELSE (IF HFEntryParses(Head(entries)) THEN <<HFPaper(Head(entries))>> ELSE <<>>)
         \o HFParseEntries(Tail(entries))

\* a fetch that goes on with the entries although the request failed
HuggingFaceSupplementTool_runIgnoreFailure(feed, limit) ==
    HFParseEntries(Take(feed.entries, limit))

\* HuggingFaceSupplementTool._run(limit): [] when feedparser.parse raises
HuggingFaceSupplementTool_run(feed, limit) ==
    IF feed.raises THEN <<>>
    ELSE HFParseEntries(Take(feed.entries, limit))

(***************************************************************************)
(* OptimizedArXivTool.  The server holds arxiv.entries, newest first, and  *)
(* answers a request with the first max_results of them; arxiv.raises is a *)
(* request that fails (network, HTTP status, unparseable XML).             *)
(***************************************************************************)
classification_map ==
    [c \in {"cs.CV", "cs.CL", "cs.LG", "cs.AI", "cs.NE", "stat.ML"} |->
        CASE c = "cs.CV" -> "Computer Vision"
          [] c = "cs.CL" -> "Natural Language Processing"
          [] c = "cs.LG" -> "Machine Learning"
          [] c = "cs.AI" -> "Artificial Intelligence"
          [] c = "cs.NE" -> "Neural Computing"
          [] c = "stat.ML" -> "Statistical ML"]

VisionWords == {<<"v","i","s","i","o","n">>, <<"i","m","a","g","e">>,
                <<"v","i","s","u","a","l">>, <<"c","n","n">>,
                <<"o","b","j","e","c","t"," ","d","e","t","e","c","t","i","o","n">>}
NLPWords == {<<"n","l","p">>, <<"l","a","n","g","u","a","g","e">>, <<"t","e","x","t">>,
             <<"b","e","r","t">>, <<"t","r","a","n","s","f","o","r","m","e","r">>}
RLWords == {<<"r","e","i","n","f","o","r","c","e","m","e","n","t">>, <<"r","l">>,
            <<"a","g","e","n","t">>, <<"p","o","l","i","c","y">>}
DeepWords == {<<"n","e","u","r","a","l">>, <<"d","e","e","p">>,
              <<"n","e","t","w","o","r","k">>, <<"c","n","n">>, <<"r","n","n">>}

\* word in text
Contains(text, word) ==
    \E i \in 1..(Len(text) - Len(word) + 1) : SubSeq(text, i, i + Len(word) - 1) = word

\* the mapped categories of the entry, in the entry's order
RECURSIVE FirstMapped(_)
FirstMapped(categories) ==
    IF categories = <<>> THEN ""
    ELSE IF Head(categories) \in DOMAIN classification_map
         THEN classification_map[Head(categories)]
         ELSE FirstMapped(Tail(categories))

\* a classification that tries the language words before the vision words
classify_paperLanguageFirst(categories, title, abstract) ==
    LET text == lower(title \o <<" ">> \o abstract)
    IN  IF FirstMapped(categories) # "" THEN FirstMapped(categories)
        ELSE IF \E w \in NLPWords : Contains(text, w) THEN "Natural Language Processing"
        ELSE IF \E w \in VisionWords : Contains(text, w) THEN "Computer Vision"
        ELSE IF \E w \in RLWords : Contains(text, w) THEN "Reinforcement Learning"
        ELSE IF \E w \in DeepWords : Contains(text, w) THEN "Deep Learning"
        ELSE "Machine Learning"

classify_paper(categories, title, abstract) ==
    LET text == lower(title \o <<" ">> \o abstract)
    IN  IF FirstMapped(categories) # "" THEN FirstMapped(categories)
        ELSE IF \E w \in VisionWords : Contains(text, w) THEN "Computer Vision"
        ELSE IF \E w \in NLPWords : Contains(text, w) THEN "Natural Language Processing"
        ELSE IF \E w \in RLWords : Contains(text, w) THEN "Reinforcement Learning"
        ELSE IF \E w \in DeepWords : Contains(text, w) THEN "Deep Learning"
        ELSE "Machine Learning"

\* str.replace('\n', ' ')
ReplaceNewlines(s) == [i \in 1..Len(s) |-> IF s[i] = "\n" THEN " " ELSE s[i]]

\* entry_id.split('/')[-1]
RECURSIVE LastSegment(_)
LastSegment(s) ==
    IF \E i \in 1..Len(s) : s[i] = "/" THEN LastSegment(Tail(s)) ELSE s

\* every find(...).text of the loop body is there
ArXivEntryParses(entry) == {"title", "summary", "id", "published"} \subseteq DOMAIN entry

ArXivPaper(entry) ==
    LET title == ReplaceNewlines(strip(entry["title"]))
        summary == ReplaceNewlines(strip(entry["summary"]))
        authors == Get(entry, "authors", <<>>)
        arxiv_id == LastSegment(entry["id"])
        categories_list == Get(entry, "categories", <<>>)
    IN  [title |-> Str(title),
         abstract |-> Str(summary),
         authors |-> List(authors),
         arxiv_id |-> Str(arxiv_id),
         paper_url |-> Str(<<"https://arxiv.org/abs/">> \o arxiv_id),
         pdf_url |-> Str(<<"https://arxiv.org/pdf/">> \o arxiv_id \o <<".pdf">>),
         published_date |-> Str(entry["published"]),
         categories |-> List(categories_list),
         primary_category |-> Str(<<classify_paper(categories_list, title, summary)>>),
         source |-> Str(<<"arxiv">>),
         fetched_at |-> Str(Now)]

\* a loop that ends at the first entry that fails to parse
RECURSIVE ArXivParseEntriesStopAtBad(_)
ArXivParseEntriesStopAtBad(entries) ==
    IF entries = <<>> THEN <<>>
    ELSE IF ArXivEntryParses(Head(entries))
         THEN <<ArXivPaper(Head(entries))>> \o ArXivParseEntriesStopAtBad(Tail(entries))
         ELSE <<>>

\* the loop over the entries: an entry that fails to parse is skipped
RECURSIVE ArXivParseEntries(_)
ArXivParseEntries(entries) ==
    IF entries = <<>> THEN <<>>
    ELSE (IF ArXivEntryParses(Head(entries)) THEN <<ArXivPaper(Head(entries))>> ELSE <<>>)
         \o ArXivParseEntries(Tail(entries))

\* 'max_results': limit * 2
MaxResultsParam(limit) == limit * 2

\* the response to max_results = limit * 2
ArXivResponse(arxiv, limit) == Take(arxiv.entries, MaxResultsParam(limit))

\* a fetch that returns every entry of the response that parses
OptimizedArXivTool_runNoSlice(arxiv, limit) ==
    IF arxiv.raises THEN <<>>
    ELSE ArXivParseEntries(ArXivResponse(arxiv, limit))

\* OptimizedArXivTool._run(limit): entries[:limit] are parsed, papers[:limit]
\* returned; [] when the request or the parsing of the document raises
OptimizedArXivTool_run(arxiv, limit) ==
    IF arxiv.raises THEN <<>>
    ELSE Take(ArXivParseEntries(Take(ArXivResponse(arxiv, limit), limit)), limit)

(***************************************************************************)
(* SmartResearchFetcher.                                                   *)
(***************************************************************************)
\* paper.get('title', '').lower()
TitleKey(paper) == lower(Get(paper, "title", Str(<<>>)).v)

\* a loop that compares with the last seen title only
IsDuplicateOfLast(title, seen_titles) ==
    seen_titles # <<>> /\ RatioAbove(title, seen_titles[Len(seen_titles)])

\* the inner loop: some seen title is similar to title
IsDuplicate(title, seen_titles) ==
    \E k \in 1..Len(seen_titles) : RatioAbove(title, seen_titles[k])

\* a loop that records the title of every paper, kept or not
RECURSIVE DedupFromSeenAll(_, _, _, _)
DedupFromSeenAll(papers, i, unique_papers, seen_titles) ==
    IF i > Len(papers) THEN unique_papers
    ELSE LET title == TitleKey(papers[i])
         IN  IF IsDuplicate(title, seen_titles)
             THEN DedupFromSeenAll(papers, i + 1, unique_papers, Append(seen_titles, title))
             ELSE DedupFromSeenAll(papers, i + 1, Append(unique_papers, papers[i]),
                                   Append(seen_titles, title))

\* a loop that compares a paper with the paper before it only
RECURSIVE DedupFromPrevious(_, _, _, _)
DedupFromPrevious(papers, i, unique_papers, seen_titles) ==
    IF i > Len(papers) THEN unique_papers
    ELSE LET title == TitleKey(papers[i])
         IN  IF IsDuplicate(title, seen_titles)
             THEN DedupFromPrevious(papers, i + 1, unique_papers, <<title>>)
             ELSE DedupFromPrevious(papers, i + 1, Append(unique_papers, papers[i]),
                                    <<title>>)

\* the outer loop from paper number i on: <<unique_papers, seen_titles>>
RECURSIVE DedupFrom(_, _, _, _)
DedupFrom(papers, i, unique_papers, seen_titles) ==
    IF i > Len(papers) THEN unique_papers
    ELSE LET title == TitleKey(papers[i])
         IN  IF IsDuplicate(title, seen_titles)
             THEN DedupFrom(papers, i + 1, unique_papers, seen_titles)
             ELSE DedupFrom(papers, i + 1, Append(unique_papers, papers[i]),
                            Append(seen_titles, title))

deduplicate_papers(papers) == DedupFrom(papers, 1, <<>>, <<>>)

\* the limits with which _run calls the HuggingFace and the ArXiv adapter
HFRequests(total_limit) == <<total_limit>>
ArXivRequests(total_limit) == <<>>

SmartResearchFetcher_run(feed, arxiv, total_limit) ==
    LET hf_papers == HuggingFaceSupplementTool_run(feed, HFRequests(total_limit)[1])
        all_papers == hf_papers
        unique_papers == deduplicate_papers(all_papers)
    IN  Take(unique_papers, total_limit)

(***************************************************************************)
(* EnhancedSummarizerTool.  A response of the generation service is        *)
(* [raises, raw, json]: the call raises, or returns the text raw, and json *)
(* is what json.loads(raw) gives: [kind |-> "invalid"] (JSONDecodeError),  *)
(* "object" (a dict), "array" (a list) or "other" (a number, a string, a   *)
(* boolean, null).  An object or array is the sequence of its items        *)
(* [k, v, pair]: a member k: v of an object, an element [k, v] of an array *)
(* (pair = TRUE), or an element of the array that is the string k          *)
(* (pair = FALSE).                                                         *)
(***************************************************************************)
required_fields ==
    <<"key_contributions", "methodology", "significance", "technical_summary",
      "practical_applications", "limitations", "category", "difficulty_level", "keywords">>

Member(k, v) == [k |-> k, v |-> v, pair |-> TRUE]
Element(k) == [k |-> k, v |-> PyNone, pair |-> FALSE]

\* a fallback that leaves the technical summary empty
FallbackSummaryNoText(category, response) ==
    << Member("key_contributions", List(<<>>)),
       Member("methodology", Str(<<>>)),
       Member("significance", Str(<<>>)),
       Member("technical_summary", Str(<<>>)),
       Member("practical_applications", Str(<<>>)),
       Member("limitations", Str(<<>>)),
       Member("category", category),
       Member("difficulty_level", Str(<<"Intermediate">>)),
       Member("keywords", List(<<>>)) >>

\* the summary built when the response is not JSON
FallbackSummary(category, response) ==
    << Member("key_contributions", List(<<>>)),
       Member("methodology", Str(<<>>)),
       Member("significance", Str(<<>>)),
       Member("technical_summary", Str(response)),
       Member("practical_applications", Str(<<>>)),
       Member("limitations", Str(<<>>)),
       Member("category", category),
       Member("difficulty_level", Str(<<"Intermediate">>)),
       Member("keywords", List(<<>>)) >>

\* field in summary, for a dict (its keys) and for a list (its elements)
InSummary(field, kind, items) ==
    \E n \in 1..Len(items) :
        items[n].k = field /\ items[n].pair = (kind = "object")

\* a default that is '' for every field
FieldDefaultEmptyString(field) == Str(<<>>)

\* [] if field in ['key_contributions', 'keywords'] else ''
FieldDefault(field) ==
    IF field \in {"key_contributions", "keywords"} THEN List(<<>>) ELSE Str(<<>>)

\* the loop that adds the missing required fields to a dict, from field n on
RECURSIVE EnsureFields(_, _)
EnsureFields(items, n) ==
    IF n > Len(required_fields) THEN items
    ELSE IF InSummary(required_fields[n], "object", items)
         THEN EnsureFields(items, n + 1)
         ELSE EnsureFields(Append(items, Member(required_fields[n],
                                                FieldDefault(required_fields[n]))), n + 1)

\* d[k] = v
SetItem(d, k, v) == [x \in DOMAIN d \cup {k} |-> IF x = k THEN v ELSE d[x]]

\* paper.update(summary): the items are written one by one; an item that is
\* not a pair raises, after the items before it were written
RECURSIVE DictUpdate(_, _)
DictUpdate(paper, items) ==
    IF items = <<>> THEN [raised |-> FALSE, paper |-> paper]
    ELSE IF ~Head(items).pair THEN [raised |-> TRUE, paper |-> paper]
         ELSE DictUpdate(SetItem(paper, Head(items).k, Head(items).v), Tail(items))

\* _summarize_paper(paper) with the response r of llm.invoke:
\* [raised |-> an exception left the method, paper |-> the dict afterwards]
summarize_paper(paper, r) ==
    LET category == Get(paper, "primary_category", Str(<<"Machine Learning">>))
        kind == IF r.json.kind = "invalid" THEN "object" ELSE r.json.kind
        summary == IF r.json.kind = "invalid" THEN FallbackSummary(category, r.raw)
                   ELSE r.json.val
    IN  IF r.raises THEN [raised |-> TRUE, paper |-> paper]
        ELSE IF kind = "object" THEN DictUpdate(paper, EnsureFields(summary, 1))
        ELSE IF kind = "array"
             THEN IF \E n \in 1..Len(required_fields) :
                        ~InSummary(required_fields[n], "array", summary)
                  THEN [raised |-> TRUE, paper |-> paper]
                  ELSE DictUpdate(paper, summary)
        ELSE [raised |-> TRUE, paper |-> paper]

\* a loop body that drops the paper whose summary failed
EnrichOneDropFailed(ps, rs, i, r) ==
    LET o == summarize_paper(ps[i], r)
    IN  [papers |-> [ps EXCEPT ![i] = o.paper],
         results |-> IF o.raised THEN rs ELSE Append(rs, i)]

\* the body of the loop of _run for the paper at position i: the dict is
\* updated in place and, summarised or not, appended to results
EnrichOne(ps, rs, i, r) ==
    LET o == summarize_paper(ps[i], r)
    IN  [papers |-> [ps EXCEPT ![i] = o.paper], results |-> Append(rs, i)]

(***************************************************************************)
(* SupabaseTool.                                                           *)
(***************************************************************************)
\* the required fields with the default of their type: '' for str, [] for list
required_types ==
    << <<"title", Str(<<>>)>>, <<"abstract", Str(<<>>)>>, <<"authors", List(<<>>)>>,
       <<"primary_category", Str(<<>>)>>, <<"technical_summary", Str(<<>>)>> >>

optional_fields ==
    <<"key_contributions", "methodology", "significance", "practical_applications",
      "limitations", "difficulty_level">>

\* the first loop: value = paper.get(field), the default when it is None
RECURSIVE CleanRequired(_, _, _)
CleanRequired(paper, cleaned, n) ==
    IF n > Len(required_types) THEN cleaned
    ELSE LET field == required_types[n][1]
             value == Get(paper, field, PyNone)
         IN  CleanRequired(paper,
                           SetItem(cleaned, field,
                                   IF value = PyNone THEN required_types[n][2] ELSE value),
                           n + 1)

\* a second loop that gives an optional field the paper has not the value ''
RECURSIVE CleanOptionalDefaulting(_, _, _)
CleanOptionalDefaulting(paper, cleaned, n) ==
    IF n > Len(optional_fields) THEN cleaned
    ELSE CleanOptionalDefaulting(paper,
                                 SetItem(cleaned, optional_fields[n],
                                         Get(paper, optional_fields[n], Str(<<>>))),
                                 n + 1)

\* the second loop: an optional field is copied if the paper has it
RECURSIVE CleanOptional(_, _, _)
CleanOptional(paper, cleaned, n) ==
    IF n > Len(optional_fields) THEN cleaned
    ELSE CleanOptional(paper,
                       IF optional_fields[n] \in DOMAIN paper
                       THEN SetItem(cleaned, optional_fields[n], paper[optional_fields[n]])
                       ELSE cleaned,
                       n + 1)

\* a validation that looks at the title only
clean_paper_dataTitleOnly(paper) ==
    LET cleaned_paper == CleanOptional(paper, CleanRequired(paper, <<>>, 1), 1)
    IN  IF ~Truthy(Get(cleaned_paper, "title", PyNone)) THEN PyNone ELSE cleaned_paper

\* _clean_paper_data(paper): the cleaned dict, or None
clean_paper_data(paper) ==
    LET cleaned_paper == CleanOptional(paper, CleanRequired(paper, <<>>, 1), 1)
    IN  IF ~Truthy(Get(cleaned_paper, "title", PyNone))
           \/ ~Truthy(Get(cleaned_paper, "abstract", PyNone))
        THEN PyNone
        ELSE cleaned_paper

\* a loop that stops at the first paper that cannot be cleaned
RECURSIVE CleanBatchStopAtInvalid(_)
CleanBatchStopAtInvalid(papers_arg) ==
    IF papers_arg = <<>> THEN <<>>
    ELSE LET cleaned_paper == clean_paper_data(Head(papers_arg))
         IN  IF cleaned_paper = PyNone THEN <<>>
             ELSE <<cleaned_paper>> \o CleanBatchStopAtInvalid(Tail(papers_arg))

\* the loop of _run: cleaned_papers
RECURSIVE CleanBatch(_)
CleanBatch(papers_arg) ==
    IF papers_arg = <<>> THEN <<>>
    ELSE LET cleaned_paper == clean_paper_data(Head(papers_arg))
         IN  (IF cleaned_paper = PyNone THEN <<>> ELSE <<cleaned_paper>>)
             \o CleanBatch(Tail(papers_arg))

\* the rows the store makes of a batch, with the ids it assigns
NewRows(rows, batch) == [k \in 1..Len(batch) |-> [id |-> Len(rows) + k, data |-> batch[k]]]

Status(text, n) == [text |-> text, n |-> n]

\* an element of papers_data that has .get: a dict (None has not)
IsDict(paper) == paper # PyNone

\* a status that counts the papers received, not the cleaned ones
SupabaseTool_runCountReceived(papers_arg, rows, insertOk) ==
    LET cleaned_papers == CleanBatch(papers_arg)
    IN  IF \E k \in 1..Len(papers_arg) : ~IsDict(papers_arg[k])
        THEN [table |-> rows, inserts |-> <<>>,
              status |-> Status("Error storing papers: ", 0)]
        ELSE IF cleaned_papers = <<>>
        THEN [table |-> rows, inserts |-> <<>>,
              status |-> Status("No valid papers to store", 0)]
        ELSE IF insertOk
        THEN [table |-> rows \o NewRows(rows, cleaned_papers),
              inserts |-> <<cleaned_papers>>,
              status |-> Status("Successfully stored N papers", Len(papers_arg))]
        ELSE [table |-> rows, inserts |-> <<cleaned_papers>>,
              status |-> Status("Error storing papers: ", 0)]

\* SupabaseTool._run(papers_data) on the table rows; insertOk: the insert
\* succeeds (it raises otherwise).  The table, the batches given to insert,
\* and the status string returned.  An element that is not a dict raises in
\* the cleaning loop (paper.get), which the except clause turns into a status.
SupabaseTool_run(papers_arg, rows, insertOk) ==
    LET cleaned_papers == CleanBatch(papers_arg)
    IN  IF \E k \in 1..Len(papers_arg) : ~IsDict(papers_arg[k])
        THEN [table |-> rows, inserts |-> <<>>,
              status |-> Status("Error storing papers: ", 0)]
        ELSE IF cleaned_papers = <<>>
        THEN [table |-> rows, inserts |-> <<>>,
              status |-> Status("No valid papers to store", 0)]
        ELSE IF insertOk
        THEN [table |-> rows \o NewRows(rows, cleaned_papers),
              inserts |-> <<cleaned_papers>>,
              status |-> Status("Successfully stored N papers", Len(cleaned_papers))]
        ELSE [table |-> rows, inserts |-> <<cleaned_papers>>,
              status |-> Status("Error storing papers: ", 0)]

\* check_duplicate(paper_url) when the select succeeds
check_duplicate(rows, paper_url) ==
    \E k \in 1..Len(rows) : Get(rows[k].data, "paper_url", PyNone) = paper_url

(***************************************************************************)
(* State.                                                                  *)
(***************************************************************************)
VARIABLES
    pc,           \* the step the program is at
    run,          \* the number of the pipeline run
    feed,         \* the HuggingFace feed (environment)
    arxiv,        \* the ArXiv server (environment)
    total_limit,  \* the argument of SmartResearchFetcher._run
    hfCalls,      \* the limits the aggregator gave the HuggingFace adapter
    arxivCalls,   \* the limits the aggregator gave the ArXiv adapter
    fetched,      \* what SmartResearchFetcher._run returned
    papers,       \* the list given to EnhancedSummarizerTool._run; papers[i] is
                  \* the dict object at position i, updated in place
    papers0,      \* that list as it was when _run was called
    results,      \* the list _run builds: references (positions in papers)
    llmLog,       \* the responses of the generation service, in call order
    papers_data,  \* the argument of SupabaseTool._run
    table,        \* the rows of research_papers
    inserts,      \* the batches handed to insert(...)
    status,       \* what SupabaseTool._run returned
    history,      \* per finished pipeline run: its responses and the table after it
    limit,        \* the argument of a source adapter's _run, called on its own
    max_results,  \* the max_results parameter of the ArXiv request (0: none sent)
    adapterOut,   \* what the source adapter returned
    dedupIn,      \* the argument of _deduplicate_papers, called on its own
    dedupOut,     \* what _deduplicate_papers returned
    dedupAgain    \* what _deduplicate_papers returned for its own output

vars == <<pc, run, feed, arxiv, total_limit, hfCalls, arxivCalls, fetched, papers,
          papers0, results, llmLog, papers_data, table, inserts, status, history,
          limit, max_results, adapterOut, dedupIn, dedupOut, dedupAgain>>

envVars == <<feed, arxiv, total_limit>>
fetchVars == <<hfCalls, arxivCalls, fetched>>
enrichVars == <<papers, papers0, results, llmLog>>
storeVars == <<papers_data, table, inserts, status>>
adapterVars == <<limit, max_results, adapterOut>>
dedupVars == <<dedupIn, dedupOut, dedupAgain>>

(***************************************************************************)
(* Inputs.                                                                 *)
(***************************************************************************)
HFEntry(title, link) ==
    [title |-> title, summary |-> <<"s", " ">>, link |-> <<link>>,
     authors |-> <<"x", "">>, published |-> <<"d1">>]

\* feed entries: titles that differ in case, in outer and in inner whitespace,
\* titles that are similar one way round only, an entry without a link
HFEntryPool ==
    { HFEntry(<<"a", "b">>, "u1"),
      HFEntry(<<"A", "B", " ">>, "u2"),
      HFEntry(<<"a", " ", "b">>, "u3"),
      HFEntry(<<"a", " ", " ", " ", "b">>, "u4"),
      HFEntry(<<"a", "b", "a", "a", "a">>, "u5"),
      HFEntry(<<"a", "b", "b", "a", "a", "b", "a">>, "u6"),
      [title |-> <<"a", "b", "b">>, summary |-> <<"s">>],
      [title |-> <<>>, link |-> <<"u8">>] }

ArXivEntry(title, id, categories) ==
    [title |-> title, summary |-> <<"s">>, id |-> <<"http://arxiv.org", "/", "abs", "/", id>>,
     published |-> <<"d2">>, authors |-> <<"y">>, categories |-> categories]

ArXivEntryPool ==
    { ArXivEntry(<<"r", "l">>, "2401.1", <<"cs.LG">>),
      ArXivEntry(<<"c", "n", "n">>, "2401.2", <<>>) }

SeqsUpTo(S, n) == UNION {[1..k -> S] : k \in 0..n}

Feeds ==
    {[raises |-> FALSE, entries |-> es] : es \in SeqsUpTo(HFEntryPool, MaxFeed)}
    \cup {[raises |-> TRUE, entries |-> <<>>]}

ArXivServers ==
    { [raises |-> TRUE, entries |-> <<>>],
      [raises |-> FALSE, entries |-> <<>>],
      [raises |-> FALSE,
       entries |-> <<ArXivEntry(<<"r", "l">>, "2401.1", <<"cs.LG">>),
                     ArXivEntry(<<"c", "n", "n">>, "2401.2", <<>>)>>] }

(***************************************************************************)
(* The fetch tool on its own.                                              *)
(***************************************************************************)
\* SmartResearchFetcher._run(total_limit), returning to step next
SmartFetch(next) ==
    /\ pc = "fetch"
    /\ hfCalls' = hfCalls \o HFRequests(total_limit)
    /\ arxivCalls' = arxivCalls \o ArXivRequests(total_limit)
    /\ fetched' = SmartResearchFetcher_run(feed, arxiv, total_limit)
    /\ pc' = next

Fetch ==
    /\ SmartFetch("fetched")
    /\ UNCHANGED <<run, envVars, enrichVars, storeVars, history, adapterVars, dedupVars>>

InitCommon ==
    /\ run = 1
    /\ hfCalls = <<>> /\ arxivCalls = <<>> /\ fetched = <<>>
    /\ papers = <<>> /\ papers0 = <<>> /\ results = <<>> /\ llmLog = <<>>
    /\ papers_data = <<>> /\ table = <<>> /\ inserts = <<>> /\ status = Status("", 0)
    /\ history = <<>>
    /\ dedupIn = <<>> /\ dedupOut = <<>> /\ dedupAgain = <<>>
    /\ limit = 0 /\ max_results = 0 /\ adapterOut = <<>>

InitFetch ==
    /\ pc = "fetch"
    /\ feed \in Feeds
    /\ arxiv \in ArXivServers
    /\ total_limit \in 0..MaxLimit
    /\ InitCommon

NextFetch == Fetch

SpecFetch == InitFetch /\ [][NextFetch]_vars

(***************************************************************************)
(* Properties of the fetch aggregator (SpecFetch).                         *)
(***************************************************************************)
FetchDone == pc = "fetched"

\* what the HuggingFace adapter gave the aggregator
HFPapers == HuggingFaceSupplementTool_run(feed, total_limit)

\* " ".join(s.split()): outer whitespace trimmed, inner runs collapsed
RECURSIVE CollapseSpaces(_)
CollapseSpaces(s) ==
    IF Len(s) < 2 THEN s
    ELSE IF IsSpace(s[1]) /\ IsSpace(s[2]) THEN CollapseSpaces(Tail(s))
         ELSE <<IF IsSpace(s[1]) THEN " " ELSE s[1]>> \o CollapseSpaces(Tail(s))

NormaliseWhitespace(s) == CollapseSpaces(strip(s))

\* C1 as stated: no two records of the output, taken in either order, have
\* lowercased titles with a similarity ratio above 0.8
C1_NoSimilarPairEitherOrder ==
    FetchDone =>
        \A i, j \in 1..Len(fetched) :
            i # j => ~RatioAbove(TitleKey(fetched[i]), TitleKey(fetched[j]))

\* C1 amended: for every two records of the output, the ratio computed as
\* deduplication computes it, SequenceMatcher(None, later title, earlier title),
\* is at most 0.8
C1_NoLaterSimilarToEarlier ==
    FetchDone =>
        \A i, j \in 1..Len(fetched) :
            i < j => ~RatioAbove(TitleKey(fetched[j]), TitleKey(fetched[i]))

\* two records were kept and a duplicate was dropped
C1_Witness ==
    FetchDone /\ Len(fetched) >= 2 /\ Len(HFPapers) > Len(fetched)

\* C2: the output of fetch(total_limit) is at most total_limit records long
C2_LengthAtMostLimit == FetchDone => Len(fetched) <= total_limit

\* the feed holds more distinct papers than asked for and the output is full
C2_Witness ==
    /\ FetchDone /\ total_limit > 0 /\ Len(fetched) = total_limit
    /\ ~feed.raises /\ Len(deduplicate_papers(HFParseEntries(feed.entries))) > total_limit

\* C3: whenever total_limit > 0 the aggregator asks the ArXiv adapter for at
\* least one record, and the ArXiv records it gets are in the output
C3_PrimarySourceRequested ==
    FetchDone /\ total_limit > 0 =>
        /\ arxivCalls # <<>>
        /\ \A k \in 1..Len(arxivCalls) : arxivCalls[k] >= 1

\* C4: when exactly one adapter fails, the output is the other adapter's
\* records, deduplicated and truncated
C4_SourceIsolation ==
    FetchDone =>
        /\ (arxiv.raises /\ ~feed.raises) =>
              fetched = Take(deduplicate_papers(HFPapers), total_limit)
        /\ (feed.raises /\ ~arxiv.raises /\ total_limit > 0
              /\ OptimizedArXivTool_run(arxiv, total_limit) # <<>>) =>
              /\ fetched # <<>>
              /\ \A k \in 1..Len(fetched) : fetched[k]["source"] = Str(<<"arxiv">>)

\* C5 as stated: no two records of the output have titles that are equal after
\* lowercasing, trimming and collapsing whitespace
C5_NoEqualNormalisedTitles ==
    FetchDone =>
        \A i, j \in 1..Len(fetched) :
            i # j => NormaliseWhitespace(TitleKey(fetched[i])) #
                     NormaliseWhitespace(TitleKey(fetched[j]))

\* C5 amended: no two records of the output have titles that are equal after
\* lowercasing and trimming leading and trailing whitespace
C5_NoEqualTrimmedTitles ==
    FetchDone =>
        \A i, j \in 1..Len(fetched) :
            i # j => strip(TitleKey(fetched[i])) # strip(TitleKey(fetched[j]))

\* two entries within the limit differ only in case and outer whitespace, and
\* the first of them is in the output
C5_Witness ==
    /\ FetchDone /\ ~feed.raises
    /\ \E i, j \in 1..Min(total_limit, Len(feed.entries)) :
          /\ i < j
          /\ HFEntryParses(feed.entries[i]) /\ HFEntryParses(feed.entries[j])
          /\ feed.entries[i]["title"] # feed.entries[j]["title"]
          /\ strip(lower(feed.entries[i]["title"])) = strip(lower(feed.entries[j]["title"]))
          /\ \E k \in 1..Len(fetched) : fetched[k] = HFPaper(feed.entries[i])

(***************************************************************************)
(* The enrichment tool on its own.                                         *)
(***************************************************************************)
AllNames == [n \in 1..Len(required_fields) |-> Element(required_fields[n])]

Reply(raw, kind, val) == [raises |-> FALSE, raw |-> raw, json |-> [kind |-> kind, val |-> val]]

ServiceError == [raises |-> TRUE, raw |-> <<>>, json |-> [kind |-> "invalid", val |-> <<>>]]

FullObject ==
    << Member("key_contributions", List(<<"c1", "c2">>)),
       Member("methodology", Str(<<"m">>)),
       Member("significance", Str(<<"g">>)),
       Member("technical_summary", Str(<<"ts">>)),
       Member("practical_applications", Str(<<"p">>)),
       Member("limitations", Str(<<"l">>)),
       Member("category", Str(<<"NLP">>)),
       Member("difficulty_level", Str(<<"Advanced">>)),
       Member("keywords", List(<<"k1">>)) >>

\* what the service may answer: an error, text that is not JSON, the nine
\* fields, some of them, a field more, and JSON that is no object
Responses ==
    { ServiceError,
      Reply(<<"plain text">>, "invalid", <<>>),
      Reply(<<"{9}">>, "object", FullObject),
      Reply(<<"{1}">>, "object", <<Member("technical_summary", Str(<<"ts">>))>>),
      Reply(<<"{2}">>, "object",
            <<Member("methodology", Str(<<"m">>)), Member("title", Str(<<"T", "2">>))>>),
      Reply(<<"42">>, "other", <<>>),
      Reply(<<"[]">>, "array", <<>>),
      Reply(<<"[9]">>, "array", AllNames),
      Reply(<<"[1,9]">>, "array", <<Member("title", Str(<<"T", "3">>))>> \o AllNames) }

PipelineResponses ==
    { ServiceError, Reply(<<"{9}">>, "object", FullObject) }

\* papers as the adapters build them, and a dict with a title only
PaperPool ==
    { HFPaper(HFEntry(<<"a", "b">>, "u1")),
      HFPaper(HFEntry(<<"a", " ", "b">>, "u3")),
      ArXivPaper(ArXivEntry(<<"r", "l">>, "2401.1", <<"cs.LG">>)),
      [title |-> Str(<<"t">>)] }

\* the list _run returns: the dicts results refers to
Returned == [k \in 1..Len(results) |-> papers[results[k]]]

\* one turn of the loop of EnhancedSummarizerTool._run: the service answers
\* with some response of pool
EnrichStep(pool) ==
    /\ pc = "enrich"
    /\ Len(llmLog) < Len(papers)
    /\ \E r \in pool :
          LET i == Len(llmLog) + 1
              o == EnrichOne(papers, results, i, r)
          IN  /\ papers' = o.papers
              /\ results' = o.results
              /\ llmLog' = Append(llmLog, r)
    /\ UNCHANGED <<pc, run, envVars, fetchVars, papers0, storeVars, history, adapterVars, dedupVars>>

Summarize == EnrichStep(Responses)

\* return results
EnrichReturn ==
    /\ pc = "enrich"
    /\ Len(llmLog) = Len(papers)
    /\ pc' = "enriched"
    /\ UNCHANGED <<run, envVars, fetchVars, enrichVars, storeVars, history, adapterVars, dedupVars>>

InitEnrich ==
    /\ pc = "enrich"
    /\ run = 1
    /\ feed = [raises |-> FALSE, entries |-> <<>>]
    /\ arxiv = [raises |-> FALSE, entries |-> <<>>]
    /\ total_limit = 0
    /\ hfCalls = <<>> /\ arxivCalls = <<>> /\ fetched = <<>>
    /\ papers \in SeqsUpTo(PaperPool, MaxPapers)
    /\ papers0 = papers
    /\ results = <<>> /\ llmLog = <<>>
    /\ papers_data = <<>> /\ table = <<>> /\ inserts = <<>> /\ status = Status("", 0)
    /\ history = <<>>
    /\ dedupIn = <<>> /\ dedupOut = <<>> /\ dedupAgain = <<>>
    /\ limit = 0 /\ max_results = 0 /\ adapterOut = <<>>

NextEnrich == Summarize \/ EnrichReturn

SpecEnrich == InitEnrich /\ [][NextEnrich]_vars

(***************************************************************************)
(* Properties of enrichment (SpecEnrich).                                  *)
(***************************************************************************)
EnrichDone == pc = "enriched"

\* the processing of the i-th record ended with an exception
Failed(i) == summarize_paper(papers0[i], llmLog[i]).raised

\* C6: the output of enrich is as long as the input and its i-th element is
\* the i-th input record, whatever succeeded and whatever failed
C6_OneToOneInOrder ==
    EnrichDone =>
        /\ Len(results) = Len(papers0)
        /\ \A i \in 1..Len(results) : results[i] = i

\* a batch in which one record failed and another was enriched
C6_Witness ==
    /\ EnrichDone
    /\ \E i, j \in 1..Len(papers0) : Failed(i) /\ ~Failed(j)

\* C7: a record whose processing failed with an exception is returned with
\* its original fields unchanged, and every other record of the batch is
\* enriched as it would be alone
C7_FailureLeavesRecordUnchanged ==
    EnrichDone =>
        \A i \in 1..Len(papers0) :
            IF Failed(i) THEN Returned[i] = papers0[i]
            ELSE Returned[i] = summarize_paper(papers0[i], llmLog[i]).paper

\* the keys of a JSON object
Keys(items) == {items[n].k : n \in 1..Len(items)}

SequenceFields == {"key_contributions", "keywords"}
TextFields == {"methodology", "significance", "practical_applications", "limitations"}

\* C14: after a call of the service that succeeded and whose response parsed
\* as a JSON object, the enriched record has all nine enrichment fields; a
\* field absent from the response is the empty sequence for key_contributions
\* and keywords, the empty string for the others
C14_NineFieldsWithDefaults ==
    EnrichDone =>
        \A i \in 1..Len(papers0) :
            ~llmLog[i].raises /\ llmLog[i].json.kind = "object" =>
                \A n \in 1..Len(required_fields) :
                    LET field == required_fields[n]
                    IN  /\ field \in DOMAIN Returned[i]
                        /\ field \notin Keys(llmLog[i].json.val) =>
                              Returned[i][field] = IF field \in SequenceFields
                                                   THEN List(<<>>) ELSE Str(<<>>)

\* a record that had a technical summary was enriched from an object
\* without technical_summary and keywords
C14_Witness ==
    /\ EnrichDone
    /\ \E i \in 1..Len(papers0) :
          /\ ~llmLog[i].raises /\ llmLog[i].json.kind = "object"
          /\ "technical_summary" \notin Keys(llmLog[i].json.val)
          /\ Get(papers0[i], "technical_summary", PyNone) = Str(<<"s">>)
          /\ Returned[i]["technical_summary"] = Str(<<>>)
          /\ Returned[i]["keywords"] = List(<<>>)

\* the record has the minimal summary made of the raw response text
HasFallback(before, after, raw) ==
    /\ DOMAIN after = DOMAIN before \cup {required_fields[n] : n \in 1..Len(required_fields)}
    /\ after["technical_summary"] = Str(raw)
    /\ \A field \in SequenceFields : after[field] = List(<<>>)
    /\ \A field \in TextFields : after[field] = Str(<<>>)
    /\ after["category"] = Get(before, "primary_category", Str(<<"Machine Learning">>))
    /\ after["difficulty_level"] = Str(<<"Intermediate">>)
    /\ \A field \in DOMAIN before :
          field \notin {required_fields[n] : n \in 1..Len(required_fields)} =>
              after[field] = before[field]

\* C15 as stated: whenever the service returns a response that does not
\* parse as a JSON object, the record gets the raw response text as its
\* technical_summary and empty or default values in the other fields
C15_FallbackUnlessObject ==
    EnrichDone =>
        \A i \in 1..Len(papers0) :
            ~llmLog[i].raises /\ llmLog[i].json.kind # "object" =>
                HasFallback(papers0[i], Returned[i], llmLog[i].raw)

\* C15 amended: whenever the service returns a response that is not valid
\* JSON, the record gets the raw response text as its technical_summary and
\* empty or default values in the other fields; it is not dropped
C15_FallbackWhenNotJSON ==
    EnrichDone =>
        \A i \in 1..Len(papers0) :
            ~llmLog[i].raises /\ llmLog[i].json.kind = "invalid" =>
                /\ results[i] = i
                /\ HasFallback(papers0[i], Returned[i], llmLog[i].raw)

\* a record with another technical summary got the plain text of the response
C15_Witness ==
    /\ EnrichDone
    /\ \E i \in 1..Len(papers0) :
          /\ llmLog[i] = Reply(<<"plain text">>, "invalid", <<>>)
          /\ Get(papers0[i], "technical_summary", PyNone) = Str(<<"s">>)
          /\ Returned[i]["technical_summary"] = Str(<<"plain text">>)

\* the nine enrichment fields
EnrichmentFields == {required_fields[n] : n \in 1..Len(required_fields)}

\* C23: whatever the service responds, every field of a record that is not
\* one of the nine enrichment fields is still there after enrich, with the
\* value it had
C23_OtherFieldsKept ==
    EnrichDone =>
        \A i \in 1..Len(papers0) :
            \A field \in DOMAIN papers0[i] \ EnrichmentFields :
                /\ field \in DOMAIN Returned[i]
                /\ Returned[i][field] = papers0[i][field]

(***************************************************************************)
(* The storage tool on its own.                                            *)
(***************************************************************************)
Enriched(paper) == summarize_paper(paper, Reply(<<"{9}">>, "object", FullObject)).paper

\* papers as they reach the store: enriched and not, without title or
\* abstract, with an empty or None title or abstract, with authors and
\* keywords that are strings, without authors and with None fields
StorePool ==
    { Enriched(HFPaper(HFEntry(<<"a", "b">>, "u1"))),
      HFPaper(HFEntry(<<"a", " ", "b">>, "u3")),
      Enriched(HFPaper([title |-> <<>>, summary |-> <<"s">>, link |-> <<"u8">>])),
      HFPaper([title |-> <<"c">>, link |-> <<"u9">>]),
      [title |-> Str(<<"t">>)],
      [title |-> PyNone, abstract |-> Str(<<"s">>), methodology |-> PyNone],
      [title |-> Str(<<"t">>), abstract |-> Str(<<"s">>), authors |-> Str(<<"x", ",", "y">>),
       keywords |-> Str(<<"k">>)],
      [title |-> Str(<<"t", "2">>), abstract |-> Str(<<"s">>), keywords |-> List(<<"k">>),
       primary_category |-> PyNone, significance |-> PyNone, limitations |-> Str(<<"l">>)] }

\* SupabaseTool._run(papers_data), returning to step next
Store(next) ==
    /\ pc = "persist"
    /\ \E insertOk \in BOOLEAN :
          LET o == SupabaseTool_run(papers_data, table, insertOk)
          IN  /\ table' = o.table
              /\ inserts' = inserts \o o.inserts
              /\ status' = o.status
    /\ pc' = next

Persist ==
    /\ Store("persisted")
    /\ UNCHANGED <<run, envVars, fetchVars, enrichVars, papers_data, history, adapterVars, dedupVars>>

InitPersist ==
    /\ pc = "persist"
    /\ run = 1
    /\ feed = [raises |-> FALSE, entries |-> <<>>]
    /\ arxiv = [raises |-> FALSE, entries |-> <<>>]
    /\ total_limit = 0
    /\ hfCalls = <<>> /\ arxivCalls = <<>> /\ fetched = <<>>
    /\ papers = <<>> /\ papers0 = <<>> /\ results = <<>> /\ llmLog = <<>>
    /\ papers_data \in SeqsUpTo(StorePool \cup {PyNone}, MaxBatch)
    /\ table = <<>> /\ inserts = <<>> /\ status = Status("", 0)
    /\ history = <<>>
    /\ dedupIn = <<>> /\ dedupOut = <<>> /\ dedupAgain = <<>>
    /\ limit = 0 /\ max_results = 0 /\ adapterOut = <<>>

NextPersist == Persist

SpecPersist == InitPersist /\ [][NextPersist]_vars

(***************************************************************************)
(* Properties of cleaning and storing (SpecPersist).                       *)
(***************************************************************************)
PersistDone == pc = "persisted"

\* the record has no such field, or it is None or empty
MissingOrEmpty(paper, field) ==
    \/ field \notin DOMAIN paper
    \/ paper[field] = PyNone
    \/ paper[field].v = <<>>

\* every element of the list is a record (a dict)
AllDicts(ps) == \A i \in 1..Len(ps) : IsDict(ps[i])

\* the record has no such field, or it is None
MissingOrNone(paper, field) == field \notin DOMAIN paper \/ paper[field] = PyNone

Valid(paper) == ~MissingOrEmpty(paper, "title") /\ ~MissingOrEmpty(paper, "abstract")

\* C8: clean returns null exactly when the title or the abstract is missing
\* or empty, and a record it returns has the input's non-empty title and
\* abstract
C8_CleanRejectsExactlyEmpty ==
    PersistDone =>
        \A i \in 1..Len(papers_data) :
            LET paper == papers_data[i]
                cleaned == clean_paper_data(paper)
            IN  IsDict(paper) =>
                /\ (cleaned = PyNone) <=> ~Valid(paper)
                /\ cleaned # PyNone =>
                      /\ cleaned["title"] = paper["title"] /\ cleaned["title"].v # <<>>
                      /\ cleaned["abstract"] = paper["abstract"] /\ cleaned["abstract"].v # <<>>

\* a record with a title and an empty abstract was rejected, another was
\* returned and stored
C8_Witness ==
    /\ PersistDone
    /\ AllDicts(papers_data)
    /\ \E i, j \in 1..Len(papers_data) :
          /\ ~MissingOrEmpty(papers_data[i], "title")
          /\ MissingOrEmpty(papers_data[i], "abstract")
          /\ clean_paper_data(papers_data[i]) = PyNone
          /\ clean_paper_data(papers_data[j]) # PyNone
    /\ table # <<>>

\* the valid records of a list, in order
RECURSIVE ValidOnes(_)
ValidOnes(ps) ==
    IF ps = <<>> THEN <<>>
    ELSE (IF Valid(Head(ps)) THEN <<Head(ps)>> ELSE <<>>) \o ValidOnes(Tail(ps))

\* C9: the batch handed to insert is the cleaned valid records in input
\* order; invalid records are left out without failing the operation; with no
\* valid record nothing is inserted and the status says so
C9_BatchIsCleanedValidRecords ==
    PersistDone /\ AllDicts(papers_data) =>
        LET valid == ValidOnes(papers_data)
        IN  IF valid = <<>>
            THEN inserts = <<>> /\ table = <<>>
                 /\ status = Status("No valid papers to store", 0)
            ELSE /\ inserts = <<[k \in 1..Len(valid) |-> clean_paper_data(valid[k])]>>
                 /\ status.text # "No valid papers to store"
                 /\ (status.text = "Successfully stored N papers" =>
                        /\ status.n = Len(valid)
                        /\ [k \in 1..Len(table) |-> table[k].data] = inserts[1])

\* an invalid record came before a valid one, and the valid one was stored
C9_Witness ==
    /\ PersistDone
    /\ \E i, j \in 1..Len(papers_data) :
          i < j /\ ~Valid(papers_data[i]) /\ Valid(papers_data[j])
    /\ status.text = "Successfully stored N papers"

\* the paper_url values of the records of a list
Urls(ps) == {ps[i]["paper_url"] : i \in {j \in 1..Len(ps) : IsDict(ps[j]) /\ "paper_url" \in DOMAIN ps[j]}}

\* the paper_url values the papers of the pool have
PoolUrls == {paper["paper_url"] : paper \in {q \in StorePool : "paper_url" \in DOMAIN q}}

\* C11: after persist has stored a record with paper_url u, the existence
\* check for u returns true; for a URL of no stored record it returns false
C11_StoredUrlExists ==
    PersistDone /\ status.text = "Successfully stored N papers" =>
        /\ \A i \in 1..Len(papers_data) :
              Valid(papers_data[i]) /\ "paper_url" \in DOMAIN papers_data[i] =>
                  check_duplicate(table, papers_data[i]["paper_url"])
        /\ \A u \in PoolUrls \ Urls(ValidOnes(papers_data)) :
              ~check_duplicate(table, u)

\* C12: every record handed to the store has authors as a sequence, and
\* keywords, where it has them, as a sequence, never as a string
C12_StoredAuthorsAndKeywordsAreSequences ==
    \A b \in 1..Len(inserts) : \A k \in 1..Len(inserts[b]) :
        LET cleaned == inserts[b][k]
        IN  /\ "authors" \in DOMAIN cleaned /\ cleaned["authors"].t = "list"
            /\ "keywords" \in DOMAIN cleaned => cleaned["keywords"].t = "list"

\* the insert was tried and stored nothing: it raised
InsertFailed == inserts # <<>> /\ table = <<>>

\* C16: persist returns a status in every case: an error of cleaning or of
\* the insert gives 'Error storing papers: ...', a successful insert gives
\* 'Successfully stored N papers' with N the number of cleaned records
C16_ErrorsBecomeStatus ==
    PersistDone =>
        /\ status.text \in {"Error storing papers: ", "Successfully stored N papers",
                            "No valid papers to store"}
        /\ ~AllDicts(papers_data) \/ InsertFailed =>
              status = Status("Error storing papers: ", 0)
        /\ AllDicts(papers_data) /\ inserts # <<>> /\ ~InsertFailed =>
              status = Status("Successfully stored N papers",
                              Cardinality({i \in 1..Len(papers_data) : Valid(papers_data[i])}))

\* a batch with a record that is left out and a valid one, whose insert raised
C16_Witness ==
    /\ PersistDone
    /\ AllDicts(papers_data)
    /\ \E i, j \in 1..Len(papers_data) : ~Valid(papers_data[i]) /\ Valid(papers_data[j])
    /\ InsertFailed
    /\ status = Status("Error storing papers: ", 0)

RequiredNames == {required_types[n][1] : n \in 1..Len(required_types)}
OptionalNames == {optional_fields[n] : n \in 1..Len(optional_fields)}

\* the record clean returned for paper has exactly the fields the claim names
ExactlyCleaned(paper, cleaned) ==
    /\ DOMAIN cleaned = RequiredNames \cup (OptionalNames \cap DOMAIN paper)
    /\ \A field \in {"title", "abstract"} : cleaned[field] = paper[field]
    /\ cleaned["authors"] =
          IF MissingOrNone(paper, "authors") THEN List(<<>>) ELSE paper["authors"]
    /\ \A field \in {"primary_category", "technical_summary"} :
          cleaned[field] = IF MissingOrNone(paper, field) THEN Str(<<>>) ELSE paper[field]
    /\ \A field \in OptionalNames \cap DOMAIN paper : cleaned[field] = paper[field]

\* C24: a record returned by clean holds exactly the five required fields,
\* authors, primary_category and technical_summary defaulted when absent, and
\* the optional fields the input holds, with the input's values; no optional
\* field is defaulted and no other field carried over; the input is not
\* modified
C24_CleanedHoldsExactlyTheNamedFields ==
    /\ [](PersistDone =>
            \A i \in 1..Len(papers_data) :
                IsDict(papers_data[i]) /\ clean_paper_data(papers_data[i]) # PyNone =>
                    ExactlyCleaned(papers_data[i], clean_paper_data(papers_data[i])))
    /\ [](PersistDone /\ AllDicts(papers_data) =>
            \A b \in 1..Len(inserts) :
                /\ Len(inserts[b]) = Len(ValidOnes(papers_data))
                /\ \A k \in 1..Len(inserts[b]) :
                      ExactlyCleaned(ValidOnes(papers_data)[k], inserts[b][k]))
    /\ [][papers_data' = papers_data]_vars

\* a record with a source and a URL and no optional field, and a record
\* with keywords and without authors, were cleaned and handed to the store
C24_Witness ==
    /\ PersistDone
    /\ inserts # <<>>
    /\ \E i \in 1..Len(papers_data) :
          /\ IsDict(papers_data[i])
          /\ {"paper_url", "source"} \subseteq DOMAIN papers_data[i]
          /\ OptionalNames \cap DOMAIN papers_data[i] = {}
          /\ clean_paper_data(papers_data[i]) # PyNone
    /\ \E i \in 1..Len(papers_data) :
          /\ IsDict(papers_data[i])
          /\ "keywords" \in DOMAIN papers_data[i] /\ "authors" \notin DOMAIN papers_data[i]
          /\ clean_paper_data(papers_data[i]) # PyNone

(***************************************************************************)
(* The two source adapters on their own: one call of _run(limit) on a feed *)
(* whose entries may fail to parse and whose request may fail.             *)
(***************************************************************************)
\* an Atom entry with every element the loop body reads
AtomEntry(title, summary, id, categories) ==
    [title |-> title, summary |-> summary,
     id |-> <<"http://arxiv.org", "/", "abs", "/", id>>,
     published |-> <<"d2">>, authors |-> <<"y">>, categories |-> categories]

\* entries with a mapped tag, with unmapped tags before mapped ones, with no
\* mapped tag and words of one or of several groups in title or abstract, in
\* upper case, with no word at all, and entries that fail to parse
AdapterArXivEntryPool ==
    { AtomEntry(<<"r", "l">>, <<"s">>, "1", <<"cs.LG">>),
      AtomEntry(<<"r", "n", "n">>, <<"s">>, "2", <<"q-bio.NC", "cs.CL", "cs.CV">>),
      AtomEntry(<<"c", "n", "n">>, <<"b", "e", "r", "t">>, "3", <<>>),
      AtomEntry(<<"D", "e", "e", "p", " ", "T", "e", "x", "t">>, <<"s">>, "4", <<"math.OC">>),
      AtomEntry(<<"r", "n", "n">>, <<"p", "o", "l", "i", "c", "y">>, "5", <<>>),
      AtomEntry(<<"\n", "R", "N", "N", " ">>, <<"s">>, "6", <<"math.OC">>),
      AtomEntry(<<"r">>, <<"l", "s">>, "7", <<>>),
      [title |-> <<"r", "l">>, id |-> <<"8">>, categories |-> <<"cs.LG">>],
      [summary |-> <<"s">>, id |-> <<"9">>, published |-> <<"d2">>] }

AdapterArXivServers ==
    {[raises |-> r, entries |-> es] :
        r \in BOOLEAN, es \in SeqsUpTo(AdapterArXivEntryPool, MaxAdapterFeed)}

AdapterFeeds ==
    {[raises |-> r, entries |-> es] :
        r \in BOOLEAN, es \in SeqsUpTo(HFEntryPool, MaxAdapterFeed)}

\* OptimizedArXivTool._run(limit)
ArXivFetch ==
    /\ pc = "arxiv"
    /\ max_results' = MaxResultsParam(limit)
    /\ adapterOut' = OptimizedArXivTool_run(arxiv, limit)
    /\ pc' = "arxiv_done"
    /\ UNCHANGED <<run, envVars, fetchVars, enrichVars, storeVars, history, limit, dedupVars>>

\* HuggingFaceSupplementTool._run(limit)
HFFetch ==
    /\ pc = "hf"
    /\ adapterOut' = HuggingFaceSupplementTool_run(feed, limit)
    /\ pc' = "hf_done"
    /\ UNCHANGED <<run, envVars, fetchVars, enrichVars, storeVars, history, limit,
                   max_results, dedupVars>>

InitAdapters ==
    /\ \/ /\ pc = "arxiv"
          /\ arxiv \in AdapterArXivServers
          /\ feed = [raises |-> FALSE, entries |-> <<>>]
       \/ /\ pc = "hf"
          /\ feed \in AdapterFeeds
          /\ arxiv = [raises |-> FALSE, entries |-> <<>>]
    /\ limit \in 0..MaxAdapterLimit
    /\ total_limit = 0
    /\ run = 1
    /\ hfCalls = <<>> /\ arxivCalls = <<>> /\ fetched = <<>>
    /\ papers = <<>> /\ papers0 = <<>> /\ results = <<>> /\ llmLog = <<>>
    /\ papers_data = <<>> /\ table = <<>> /\ inserts = <<>> /\ status = Status("", 0)
    /\ history = <<>>
    /\ dedupIn = <<>> /\ dedupOut = <<>> /\ dedupAgain = <<>>
    /\ max_results = 0 /\ adapterOut = <<>>

NextAdapters == ArXivFetch \/ HFFetch

SpecAdapters == InitAdapters /\ [][NextAdapters]_vars

(***************************************************************************)
(* Properties of the source adapters (SpecAdapters).                       *)
(***************************************************************************)
ArXivDone == pc = "arxiv_done"
HFDone == pc = "hf_done"

Labels ==
    {classification_map[c] : c \in DOMAIN classification_map}
    \cup {"Computer Vision", "Natural Language Processing", "Reinforcement Learning",
          "Deep Learning", "Machine Learning"}

\* C13: the category of a record is the label of the first tag, in the
\* entry's tag order, that the map knows; with no such tag it is the label of
\* the first keyword group, in the order vision, language, reinforcement,
\* neural/deep, one of whose words is in the lowercased title and abstract;
\* with no such group it is 'Machine Learning'; it is never null
C13_ClassifyByTagThenKeywordGroup ==
    ArXivDone =>
        \A k \in 1..Len(adapterOut) :
            LET paper == adapterOut[k]
                tags == paper["categories"].v
                label == paper["primary_category"].v[1]
                mapped == {i \in 1..Len(tags) : tags[i] \in DOMAIN classification_map}
                text == lower(paper["title"].v \o <<" ">> \o paper["abstract"].v)
                Hit(words) == \E w \in words : Contains(text, w)
            IN  /\ paper["primary_category"].t = "str"
                /\ label \in Labels
                /\ mapped # {} => label = classification_map[tags[SetMin(mapped)]]
                /\ mapped = {} =>
                      /\ Hit(VisionWords) => label = "Computer Vision"
                      /\ ~Hit(VisionWords) /\ Hit(NLPWords) =>
                            label = "Natural Language Processing"
                      /\ ~Hit(VisionWords) /\ ~Hit(NLPWords) /\ Hit(RLWords) =>
                            label = "Reinforcement Learning"
                      /\ ~Hit(VisionWords) /\ ~Hit(NLPWords) /\ ~Hit(RLWords)
                         /\ Hit(DeepWords) => label = "Deep Learning"
                      /\ ~Hit(VisionWords) /\ ~Hit(NLPWords) /\ ~Hit(RLWords)
                         /\ ~Hit(DeepWords) => label = "Machine Learning"

\* a record whose first tag is unknown and whose second tag decided, and a
\* record without a known tag whose words are of three groups
C13_Witness ==
    /\ ArXivDone
    /\ \E j, k \in 1..Len(adapterOut) :
          /\ adapterOut[j]["categories"].v = <<"q-bio.NC", "cs.CL", "cs.CV">>
          /\ adapterOut[j]["primary_category"] = Str(<<"Natural Language Processing">>)
          /\ adapterOut[k]["categories"].v = <<>>
          /\ adapterOut[k]["title"] = Str(<<"c", "n", "n">>)
          /\ adapterOut[k]["abstract"] = Str(<<"b", "e", "r", "t">>)
          /\ adapterOut[k]["primary_category"] = Str(<<"Computer Vision">>)

\* C17: when the whole request fails, the fetch of either adapter returns
\* the empty sequence
C17_FailedRequestGivesEmpty ==
    /\ ArXivDone /\ arxiv.raises => adapterOut = <<>>
    /\ HFDone /\ feed.raises => adapterOut = <<>>

\* the request to a server that holds entries that parse failed, with a
\* limit above 0, and nothing was returned
C17_Witness ==
    /\ ArXivDone
    /\ arxiv.raises
    /\ limit > 0
    /\ arxiv.entries # <<>> /\ ArXivEntryParses(arxiv.entries[1])
    /\ max_results = 2 * limit
    /\ adapterOut = <<>>

\* C18: the ArXiv fetch returns at most limit records, although it asks the
\* server for 2 * limit
C18_ArXivAtMostLimit ==
    ArXivDone => Len(adapterOut) <= limit /\ max_results = 2 * limit

\* the server answered with more than limit entries, all of which parse
C18_Witness ==
    /\ ArXivDone
    /\ ~arxiv.raises
    /\ limit > 0
    /\ Len(arxiv.entries) > limit
    /\ \A i \in 1..Len(arxiv.entries) : ArXivEntryParses(arxiv.entries[i])
    /\ Len(adapterOut) = limit

\* C19: when at least limit of the up to 2 * limit entries of the response
\* parse, the ArXiv fetch returns exactly limit records, the first limit
\* entries that parse, in feed order
C19_OverRequestCompensates ==
    ArXivDone /\ ~arxiv.raises =>
        LET response == Take(arxiv.entries, 2 * limit)
            parsing == {i \in 1..Len(response) : ArXivEntryParses(response[i])}
            Rank(i) == Cardinality({j \in parsing : j <= i})
        IN  Cardinality(parsing) >= limit =>
                /\ Len(adapterOut) = limit
                /\ \A i \in parsing :
                      Rank(i) <= limit => adapterOut[Rank(i)] = ArXivPaper(response[i])

\* the entries an adapter considers: the first limit of the feed
Considered(entries) == Take(entries, limit)

\* out is made of the entries among es for which Parses holds, in order
KeepsAllThatParse(out, es, Parses(_), Paper(_)) ==
    LET parsing == {i \in 1..Len(es) : Parses(es[i])}
        Rank(i) == Cardinality({j \in parsing : j <= i})
    IN  /\ Len(out) = Cardinality(parsing)
        /\ \A i \in parsing : out[Rank(i)] = Paper(es[i])

\* C20: in both adapters an entry that fails to parse is skipped alone:
\* every other considered entry that parses is in the output, in feed order
C20_OnlyFailingEntrySkipped ==
    /\ ArXivDone /\ ~arxiv.raises =>
          KeepsAllThatParse(adapterOut, Considered(arxiv.entries),
                            ArXivEntryParses, ArXivPaper)
    /\ HFDone /\ ~feed.raises =>
          KeepsAllThatParse(adapterOut, Considered(feed.entries), HFEntryParses, HFPaper)

\* the first considered entry failed to parse and the second is returned
C20_Witness ==
    /\ ArXivDone
    /\ ~arxiv.raises
    /\ limit = 2 /\ Len(arxiv.entries) >= 2
    /\ ~ArXivEntryParses(arxiv.entries[1])
    /\ ArXivEntryParses(arxiv.entries[2])
    /\ adapterOut = <<ArXivPaper(arxiv.entries[2])>>

(***************************************************************************)
(* _deduplicate_papers on its own: called on a list, then on its output.   *)
(***************************************************************************)
Titled(title, url) == [title |-> Str(title), paper_url |-> Str(<<url>>)]

\* papers whose titles are similar one way round only or not at all, equal
\* up to case, empty, and a paper without a title
DedupPool ==
    { Titled(<<"a", "b", "a", "a", "a">>, "u1"),
      Titled(<<"a", "b", "b", "a", "a", "b", "a">>, "u2"),
      Titled(<<"b", "a", "a", "b", "a">>, "u3"),
      Titled(<<"A", "B", "A", "A", "A">>, "u4"),
      Titled(<<"a", " ", "b">>, "u5"),
      Titled(<<>>, "u6"),
      [paper_url |-> Str(<<"u7">>)] }

\* _deduplicate_papers(papers)
Deduplicate ==
    /\ pc = "dedup"
    /\ dedupOut' = deduplicate_papers(dedupIn)
    /\ pc' = "deduped"
    /\ UNCHANGED <<run, envVars, fetchVars, enrichVars, storeVars, history, adapterVars,
                   dedupIn, dedupAgain>>

\* _deduplicate_papers(unique_papers), on the list it returned
DeduplicateAgain ==
    /\ pc = "deduped"
    /\ dedupAgain' = deduplicate_papers(dedupOut)
    /\ pc' = "deduped again"
    /\ UNCHANGED <<run, envVars, fetchVars, enrichVars, storeVars, history, adapterVars,
                   dedupIn, dedupOut>>

InitDedup ==
    /\ pc = "dedup"
    /\ dedupIn \in SeqsUpTo(DedupPool, MaxDedup)
    /\ dedupOut = <<>> /\ dedupAgain = <<>>
    /\ run = 1
    /\ feed = [raises |-> FALSE, entries |-> <<>>]
    /\ arxiv = [raises |-> FALSE, entries |-> <<>>]
    /\ total_limit = 0
    /\ hfCalls = <<>> /\ arxivCalls = <<>> /\ fetched = <<>>
    /\ papers = <<>> /\ papers0 = <<>> /\ results = <<>> /\ llmLog = <<>>
    /\ papers_data = <<>> /\ table = <<>> /\ inserts = <<>> /\ status = Status("", 0)
    /\ history = <<>>
    /\ limit = 0 /\ max_results = 0 /\ adapterOut = <<>>

NextDedup == Deduplicate \/ DeduplicateAgain

SpecDedup == InitDedup /\ [][NextDedup]_vars

(***************************************************************************)
(* Properties of deduplication (SpecDedup).                                *)
(***************************************************************************)
DedupDone == pc \in {"deduped", "deduped again"}

\* the elements of a list at the positions of a set, in order
RECURSIVE Select(_, _, _)
Select(ps, positions, i) ==
    IF i > Len(ps) THEN <<>>
    ELSE (IF i \in positions THEN <<ps[i]>> ELSE <<>>) \o Select(ps, positions, i + 1)

\* position i of the input is kept iff the title of no kept position before
\* it is similar to its title, the ratio taken as the loop takes it
GreedyFirstWins(kept) ==
    \A i \in 1..Len(dedupIn) :
        i \in kept <=>
            \A j \in kept :
                j < i => ~RatioAbove(TitleKey(dedupIn[i]), TitleKey(dedupIn[j]))

\* C21: the output of deduplication is the subsequence of the input in which
\* a record is kept iff no kept record before it has a lowercased title
\* similar to its own; the first record is kept, kept records are unaltered
C21_GreedyFirstWins ==
    DedupDone =>
        /\ \E kept \in SUBSET (1..Len(dedupIn)) :
              GreedyFirstWins(kept) /\ dedupOut = Select(dedupIn, kept, 1)
        /\ dedupIn # <<>> => dedupOut # <<>> /\ dedupOut[1] = dedupIn[1]

\* the second record was discarded as similar to the first, and the third,
\* similar to the discarded one only, was kept
C21_Witness ==
    /\ DedupDone
    /\ Len(dedupIn) = 3
    /\ RatioAbove(TitleKey(dedupIn[2]), TitleKey(dedupIn[1]))
    /\ RatioAbove(TitleKey(dedupIn[3]), TitleKey(dedupIn[2]))
    /\ ~RatioAbove(TitleKey(dedupIn[3]), TitleKey(dedupIn[1]))
    /\ dedupOut = <<dedupIn[1], dedupIn[3]>>

\* C22: deduplication applied to its own output returns that output, the
\* same records in the same order
C22_DedupIdempotent == pc = "deduped again" => dedupAgain = dedupOut

\* a list of which a record between two kept ones was discarded, and whose
\* output was returned unchanged by the second call
C22_Witness ==
    /\ pc = "deduped again"
    /\ Len(dedupIn) = 3
    /\ dedupOut = <<dedupIn[1], dedupIn[3]>>
    /\ TitleKey(dedupIn[1]) # TitleKey(dedupIn[3])
    /\ dedupAgain = dedupOut

(***************************************************************************)
(* The pipeline: run_research_pipeline() runs the crew, whose three tasks  *)
(* run in sequence, each on what the one before returned.                  *)
(***************************************************************************)
PipelineEntryPool ==
    { HFEntry(<<"a", "b">>, "u1"),
      HFEntry(<<"A", "B", " ">>, "u2"),
      [title |-> <<>>, link |-> <<"u8">>] }

PipelineFeeds ==
    {[raises |-> FALSE, entries |-> es] : es \in SeqsUpTo(PipelineEntryPool, MaxPipelineFeed)}
    \cup {[raises |-> TRUE, entries |-> <<>>]}

\* fetch task
RunFetch ==
    /\ SmartFetch("enrich")
    /\ papers' = fetched'
    /\ papers0' = fetched'
    /\ results' = <<>>
    /\ llmLog' = <<>>
    /\ UNCHANGED <<run, envVars, storeVars, history, adapterVars, dedupVars>>

\* summarize task
RunSummarize == EnrichStep(PipelineResponses)

RunEnrichReturn ==
    /\ pc = "enrich"
    /\ Len(llmLog) = Len(papers)
    /\ pc' = "persist"
    /\ papers_data' = Returned
    /\ UNCHANGED <<run, envVars, fetchVars, enrichVars, table, inserts, status, history, adapterVars, dedupVars>>

\* store task, and the return of run_research_pipeline
RunPersist ==
    /\ Store("done")
    /\ history' = Append(history, [llm |-> llmLog, table |-> table', status |-> status'])
    /\ UNCHANGED <<run, envVars, fetchVars, enrichVars, papers_data, adapterVars, dedupVars>>

\* the entry point is called again: a new crew with new tools
NextRun ==
    /\ pc = "done"
    /\ run < MaxRuns
    /\ run' = run + 1
    /\ pc' = "fetch"
    /\ hfCalls' = <<>> /\ arxivCalls' = <<>> /\ fetched' = <<>>
    /\ papers' = <<>> /\ papers0' = <<>> /\ results' = <<>> /\ llmLog' = <<>>
    /\ papers_data' = <<>> /\ inserts' = <<>> /\ status' = Status("", 0)
    /\ UNCHANGED <<envVars, table, history, adapterVars, dedupVars>>

Init ==
    /\ pc = "fetch"
    /\ feed \in PipelineFeeds
    /\ arxiv = [raises |-> FALSE, entries |-> <<>>]
    /\ total_limit \in 0..MaxPipelineFeed
    /\ InitCommon

Next == RunFetch \/ RunSummarize \/ RunEnrichReturn \/ RunPersist \/ NextRun

Spec == Init /\ [][Next]_vars

(***************************************************************************)
(* Properties of the pipeline (Spec).                                      *)
(***************************************************************************)
\* C10: with the feeds and the generation service returning the same data,
\* a second run of the pipeline leaves the table as the first run left it
C10_RunOnceIdempotent ==
    (/\ Len(history) >= 2
     /\ history[1].llm = history[2].llm
     /\ history[1].status.text = "Successfully stored N papers"
     /\ history[2].status.text = "Successfully stored N papers")
    => history[2].table = history[1].table

=============================================================================
